---- MODULE Spec2Model ----
(***************************************************************************)
(* Order transaction engine of the retail back office: createSale,         *)
(* createPurchase, receiveItems, the status updates and the M-Pesa         *)
(* reconciliation handlers, and the user management handlers deleteUser,   *)
(* toggleUserStatus and updateUser, all running as concurrent request      *)
(* handlers over the single SQLite connection owned by DatabaseManager.    *)
(*                                                                         *)
(* Every `await` of a handler is one step of that handler, so statements   *)
(* of different requests interleave on the shared connection.  BEGIN,      *)
(* COMMIT and ROLLBACK act on the connection, not on a request.            *)
(* `connection.execute` runs its statement on that same connection and     *)
(* answers in the [rows] shape the controllers index with [0].             *)
(***************************************************************************)
EXTENDS Integers, Sequences, FiniteSets, TLC

\* ---------------------------------------------------------------- bounds
MaxReq == 2
MaxLines == 2
MaxQty == 2
MaxFaults == 1

\* ------------------------------------------------------------- constants
NoId == 0
NoCode == -1
NullStr == "NULL"
PadWidth == 4

Req == 1..MaxReq
ProductIds == {1, 2}
MissingProduct == 3
CustomerIds == {1}
MissingCustomer == 2
SupplierIds == {1}
InactiveSupplier == 2
Days == {1}

\* ------------------------------------------------------- order numbers
RECURSIVE Digits(_)
Digits(n) == IF n < 10 THEN <<n>> ELSE Append(Digits(n \div 10), n % 10)

RECURSIVE Zeros(_)
Zeros(k) == IF k <= 0 THEN <<>> ELSE <<0>> \o Zeros(k - 1)

\* sequence.toString().padStart(4, '0')
PadStart(n) == Zeros(PadWidth - Len(Digits(n))) \o Digits(n)

RECURSIVE ParseInt(_)
\* parseInt(lastNumber.split('-').pop())
ParseInt(ds) == IF ds = <<>> THEN 0
                ELSE 10 * ParseInt(SubSeq(ds, 1, Len(ds) - 1)) + ds[Len(ds)]

\* `${prefix}${...}` with prefix = `SAL-${today}-` or `PUR-${today}-`
OrderNumber(pfx, day, seqno) == [prefix |-> pfx, day |-> day, suffix |-> PadStart(seqno)]

MaxOf(S) == CHOOSE x \in S : \A y \in S : y <= x

\* SELECT <number> FROM <table> WHERE <number> LIKE 'PFX-<today>-%' ORDER BY id DESC LIMIT 1
LastNumbered(rows, pfx, day) ==
    LET ids == {i \in DOMAIN rows : rows[i].number.prefix = pfx /\ rows[i].number.day = day}
    IN IF ids = {} THEN <<>> ELSE <<rows[MaxOf(ids)]>>

\* the sequence is not incremented
NextNumberStale(rows, pfx, day) ==
    LET last == LastNumbered(rows, pfx, day)
        sequence == IF Len(last) > 0 THEN ParseInt(last[1].number.suffix) ELSE 1
    IN OrderNumber(pfx, day, sequence)

NextNumber(rows, pfx, day) ==
    LET last == LastNumbered(rows, pfx, day)
        sequence == IF Len(last) > 0 THEN ParseInt(last[1].number.suffix) + 1 ELSE 1
    IN OrderNumber(pfx, day, sequence)

generateSaleNumber(d, day) == NextNumber(d.sales, "SAL", day)

generatePurchaseNumber(d, day) == NextNumber(d.purchases, "PUR", day)

\* ---------------------------------------------------------------- amounts
\* a JavaScript number that holds an amount: the exact fraction n/d in lowest
\* terms (the rounding of doubles is not part of the model)
RECURSIVE Gcd(_, _)
Gcd(a, b) == IF b = 0 THEN a ELSE Gcd(b, a % b)

Abs(x) == IF x < 0 THEN -x ELSE x

Num(n, d) == LET g == Gcd(Abs(n), d) IN [n |-> n \div g, d |-> d \div g]

Whole(k) == [n |-> k, d |-> 1]

Plus(x, y) == Num(x.n * y.d + y.n * x.d, x.d * y.d)

Minus(x, y) == Num(x.n * y.d - y.n * x.d, x.d * y.d)

Times(x, y) == Num(x.n * y.n, x.d * y.d)

\* x / y for y > 0
Over(x, y) == Num(x.n * y.d, x.d * y.n)

\* the VAT is always added on top
calculateVATExclusive(amount, vatRate, isInclusive) ==
    Over(Times(amount, Whole(vatRate)), Whole(100))

calculateVAT(amount, vatRate, isInclusive) ==
    IF isInclusive
    THEN Over(Times(amount, Whole(vatRate)), Whole(100 + vatRate))
    ELSE Over(Times(amount, Whole(vatRate)), Whole(100))

\* the header discount is not taken off
TotalAmountGross(subtotal, totalVAT, discount_amount) == Plus(subtotal, totalVAT)

\* const totalAmount = subtotal + totalVAT - discount_amount
TotalAmount(subtotal, totalVAT, discount_amount) ==
    Minus(Plus(subtotal, totalVAT), Whole(discount_amount))

\* (item.unit_price * item.quantity) - item.discount_amount
LineSubtotal(price, quantity, discount_amount) == Whole(price * quantity - discount_amount)

\* ------------------------------------------------------------------ state
VARIABLES db, snap, inTx, req, faults, today

vars == <<db, snap, inTx, req, faults, today>>

\* column defaults of the tables (schema)
SaleStatusDefault == "pending"

PurchaseStatusDefault == "pending"

QuantityReceivedDefault == 0

\* cart lines: one unit or the whole initial stock of the stock-tracked
\* product, one unit of the service, one unit of a product that does not exist
UnitPrice == 100

VatRate == 16

Lines == [product_id : {1}, quantity : {1, MaxQty},
          unit_price : {UnitPrice}, discount_amount : {0}]
           \cup [product_id : {2, MissingProduct}, quantity : {1},
                 unit_price : {UnitPrice}, discount_amount : {0}]

ValidLines == {l \in Lines : l.product_id \in ProductIds}

Repeat(l, n) == [i \in 1..n |-> l]

\* carts of one line, of two lines (no line is read after a line that names
\* a missing product) and longer carts that list one line again and again
Carts == {<<l>> : l \in Lines}
           \cup {<<l1, l2>> : l1 \in ValidLines, l2 \in Lines}
           \cup {Repeat(l, n) : l \in ValidLines, n \in 2..MaxLines}

SingleCarts == {<<l>> : l \in ValidLines}

\* a request: its handler, position, answer (0 none yet, -1 never answered),
\* `connection`, whether and at which statement a statement of it rejected, its
\* arguments a and its local variables l
Idle == [kind |-> "idle", pc |-> "idle", resp |-> 0, conn |-> FALSE, faulted |-> FALSE,
         at |-> "none", a |-> [none |-> 0], l |-> [none |-> 0]]

\* product 1 is stock-tracked and priced without VAT, product 2 is a service
\* priced with VAT
InitialStock == MaxQty

InitProducts ==
    [p \in ProductIds |->
        IF p = 1 THEN [quantity_in_stock |-> InitialStock, is_service |-> FALSE,
                       is_active |-> TRUE, vat_rate |-> VatRate, is_vat_inclusive |-> FALSE]
                 ELSE [quantity_in_stock |-> 0, is_service |-> TRUE,
                       is_active |-> TRUE, vat_rate |-> VatRate, is_vat_inclusive |-> TRUE]]

\* user 1 is the seeded administrator 'admin', whom sales name as cashier;
\* user 2 is a second administrator with no sales, purchases or products
UserIds == {1, 2}

MissingUser == 9

UsersWithRecords == {1}

InitUsers ==
    [u \in UserIds |-> [username |-> IF u = 1 THEN "admin" ELSE "alice",
                        role |-> "admin", is_active |-> TRUE, deleted |-> FALSE]]

InitDb ==
    [products |-> InitProducts,
     users |-> InitUsers,
     customers |-> CustomerIds,
     suppliers |-> [s \in SupplierIds \cup {InactiveSupplier} |-> [is_active |-> s \in SupplierIds]],
     sales |-> << [number |-> OrderNumber("SAL", 1, 1), customer_id |-> 1,
                   subtotal |-> Whole(100), vat_amount |-> Whole(16),
                   discount_amount |-> 0, total_amount |-> Whole(116),
                   status |-> SaleStatusDefault, payment_reference |-> NullStr,
                   amount_paid |-> 0] >>,
     sale_items |-> << [sale_id |-> 1, product_id |-> 1, quantity |-> 1,
                        unit_price |-> 100, vat_rate |-> VatRate, vat_amount |-> Whole(16),
                        discount_amount |-> 0, line_total |-> Whole(116)] >>,
     purchases |-> << [number |-> OrderNumber("PUR", 1, 1), supplier_id |-> 1,
                       subtotal |-> Whole(300), vat_amount |-> Whole(48),
                       discount_amount |-> 0, total_amount |-> Whole(348),
                       status |-> PurchaseStatusDefault] >>,
     purchase_items |-> << [purchase_id |-> 1, product_id |-> 1, quantity_ordered |-> 2,
                            unit_cost |-> 100, vat_rate |-> VatRate,
                            vat_amount |-> Whole(32), discount_amount |-> 0,
                            line_total |-> Whole(232),
                            quantity_received |-> QuantityReceivedDefault],
                           [purchase_id |-> 1, product_id |-> 1, quantity_ordered |-> 1,
                            unit_cost |-> 100, vat_rate |-> VatRate,
                            vat_amount |-> Whole(16), discount_amount |-> 0,
                            line_total |-> Whole(116),
                            quantity_received |-> QuantityReceivedDefault] >>,
     mpesa |-> << [checkout_request_id |-> "ws_CO_1", sale_id |-> 1, amount |-> 1,
                   status |-> "pending", result_code |-> NoCode,
                   callback_received |-> FALSE, transaction_id |-> NullStr],
                  [checkout_request_id |-> "ws_CO_2", sale_id |-> NoId, amount |-> 1,
                   status |-> "pending", result_code |-> NoCode,
                   callback_received |-> FALSE, transaction_id |-> NullStr],
                  [checkout_request_id |-> "ws_CO_3", sale_id |-> 1, amount |-> 1,
                   status |-> "pending", result_code |-> NoCode,
                   callback_received |-> FALSE, transaction_id |-> NullStr] >>]

Init ==
    /\ today \in Days
    /\ db = InitDb
    /\ snap = db
    /\ inTx = FALSE
    /\ req = [r \in Req |-> Idle]
    /\ faults = 0

\* ------------------------------------------------------ DatabaseManager
\* this.sqliteDb.run('BEGIN TRANSACTION'): fails inside an open transaction
BeginOk == ~inTx

\* this.sqliteDb.run('COMMIT') / run('ROLLBACK'): fail without an open transaction
EndOk == inTx

Set(r, rec) == req' = [req EXCEPT ![r] = rec]

Goto(r, pc) == Set(r, [req[r] EXCEPT !.pc = pc])

\* the handler has returned: its locals are gone
Finish(r, code) == Set(r, [req[r] EXCEPT !.pc = "done", !.resp = code, !.l = Idle.l])

\* request slots are taken in order
CanStart(r) == req[r].kind = "idle" /\ (IF r = 1 THEN TRUE ELSE req[r - 1].kind # "idle")

\* db.beginTransaction(); on rejection `connection` stays undefined and the
\* handler's catch answers 500 without a rollback
BeginTransaction(r, next) ==
    IF BeginOk
    THEN /\ inTx' = TRUE
         /\ snap' = db
         /\ Set(r, [req[r] EXCEPT !.pc = next, !.conn = TRUE])
         /\ UNCHANGED db
    ELSE /\ Finish(r, 500)
         /\ UNCHANGED <<db, snap, inTx>>

\* db.commitTransaction(connection)
CommitTransaction(r, next) ==
    IF EndOk
    THEN /\ inTx' = FALSE
         /\ snap' = db
         /\ Goto(r, next)
         /\ UNCHANGED db
    ELSE /\ Goto(r, "catch")
         /\ UNCHANGED <<db, snap, inTx>>

\* `await db.rollbackTransaction(connection); return res.status(code)...` inside try
RollbackReturn(r) ==
    /\ req[r].pc = "rollback"
    /\ IF EndOk
       THEN /\ db' = snap
            /\ inTx' = FALSE
            /\ Finish(r, req[r].l.ret)
            /\ UNCHANGED snap
       ELSE /\ Goto(r, "catch")
            /\ UNCHANGED <<db, snap, inTx>>
    /\ UNCHANGED <<faults, today>>

\* catch (error) { if (connection) await db.rollbackTransaction(connection); res.status(500) }
\* a rejected rollback leaves the request without an answer (resp -1)
Catch(r) ==
    /\ req[r].pc = "catch"
    /\ IF ~req[r].conn
       THEN Finish(r, 500) /\ UNCHANGED <<db, snap, inTx>>
       ELSE IF EndOk
            THEN /\ db' = snap
                 /\ inTx' = FALSE
                 /\ Finish(r, 500)
                 /\ UNCHANGED snap
            ELSE /\ Finish(r, -1)
                 /\ UNCHANGED <<db, snap, inTx>>
    /\ UNCHANGED <<faults, today>>


\* a statement run on the connection: it writes the connection's current
\* state, inside whichever transaction is open on the connection
Write(d) == db' = d /\ snap' = (IF inTx THEN snap ELSE d) /\ UNCHANGED inTx

Read == UNCHANGED <<db, snap, inTx>>

\* ------------------------------------------------------------- createSale
\* SELECT ... FROM products WHERE id = ? AND is_active = TRUE
ActiveProduct(d, pid) ==
    IF pid \in DOMAIN d.products /\ d.products[pid].is_active THEN <<d.products[pid]>> ELSE <<>>

\* INSERT INTO sales (...) VALUES (...)
InsertSale(d, number, customer, subtotal, totalVAT, discount_amount, totalAmount) ==
    [d EXCEPT !.sales = Append(@, [number |-> number, customer_id |-> customer,
                                   subtotal |-> subtotal, vat_amount |-> totalVAT,
                                   discount_amount |-> discount_amount,
                                   total_amount |-> totalAmount,
                                   status |-> SaleStatusDefault,
                                   payment_reference |-> NullStr, amount_paid |-> 0])]

\* INSERT INTO sale_items (...) VALUES (...)
InsertSaleItem(d, sid, item) ==
    [d EXCEPT !.sale_items = Append(@, [sale_id |-> sid, product_id |-> item.product_id,
                                        quantity |-> item.quantity,
                                        unit_price |-> item.unit_price,
                                        vat_rate |-> item.vat_rate,
                                        vat_amount |-> item.vat_amount,
                                        discount_amount |-> item.discount_amount,
                                        line_total |-> item.line_total])]

\* UPDATE products SET quantity_in_stock = quantity_in_stock - ? WHERE id = ?
DecrementStock(d, pid, q) ==
    [d EXCEPT !.products[pid].quantity_in_stock = @ - q]

\* the stock check is left out
NoStockCheck(product, item) == FALSE

\* only an empty shelf is refused
OutOfStock(product, item) ==
    ~product.is_service /\ product.quantity_in_stock <= 0

\* the stock check of one cart line
InsufficientStock(product, item) ==
    ~product.is_service /\ product.quantity_in_stock < item.quantity

\* what the error of a refused line names (0: no quantity is named)
NotFound(item) == [product_id |-> item.product_id, available |-> 0, required |-> 0]

Insufficient(product, item) ==
    [product_id |-> item.product_id, available |-> product.quantity_in_stock,
     required |-> item.quantity]

\* one entry of validatedItems
ValidatedItem(product, item) ==
    LET lineSubtotal == LineSubtotal(item.unit_price, item.quantity, item.discount_amount)
        vatAmount == calculateVAT(lineSubtotal, product.vat_rate, product.is_vat_inclusive)
        lineTotal == IF product.is_vat_inclusive THEN lineSubtotal
                     ELSE Plus(lineSubtotal, vatAmount)
    IN [product_id |-> item.product_id, quantity |-> item.quantity,
        unit_price |-> item.unit_price, discount_amount |-> item.discount_amount,
        vat_rate |-> product.vat_rate, vat_amount |-> vatAmount,
        line_total |-> lineTotal, is_service |-> product.is_service]

StartCreateSaleWith(r, customers, carts, discounts) ==
    /\ CanStart(r)
    /\ \E c \in customers, items \in carts, discount \in discounts :
          /\ c = MissingCustomer => items = <<CHOOSE l \in Lines : l.product_id = 1 /\ l.quantity = 1>>
          /\ Set(r, [Idle EXCEPT !.kind = "createSale", !.pc = "cs_begin",
                              !.a = [customer_id |-> c, items |-> items,
                                     discount_amount |-> discount],
                              !.l = [number |-> OrderNumber("SAL", 0, 0), idx |-> 1,
                                     validated |-> <<>>, subtotal |-> Whole(0),
                                     totalVAT |-> Whole(0), id |-> NoId, ret |-> 0,
                                     error |-> NotFound([product_id |-> NoId])]])
    /\ UNCHANGED <<db, snap, inTx, faults, today>>

StartCreateSale(r) ==
    StartCreateSaleWith(r, CustomerIds \cup {MissingCustomer}, Carts, {0})

\* a sale of one line for an existing customer
StartSingleSale(r) == StartCreateSaleWith(r, CustomerIds, SingleCarts, {0})

CreateSaleBegin(r) ==
    /\ req[r].kind = "createSale" /\ req[r].pc = "cs_begin"
    /\ BeginTransaction(r, "cs_number")
    /\ UNCHANGED <<faults, today>>

CreateSaleNumber(r) ==
    /\ req[r].kind = "createSale" /\ req[r].pc = "cs_number"
    /\ Set(r, [req[r] EXCEPT !.pc = "cs_customer", !.l.number = generateSaleNumber(db, today)])
    /\ Read
    /\ UNCHANGED <<faults, today>>

CreateSaleCustomer(r) ==
    /\ req[r].kind = "createSale" /\ req[r].pc = "cs_customer"
    /\ IF req[r].a.customer_id \in db.customers
       THEN Goto(r, "cs_validate")
       ELSE Set(r, [req[r] EXCEPT !.pc = "rollback", !.l.ret = 404])
    /\ Read
    /\ UNCHANGED <<faults, today>>

CreateSaleValidate(r) ==
    /\ req[r].kind = "createSale" /\ req[r].pc = "cs_validate"
    /\ LET item == req[r].a.items[req[r].l.idx]
           products == ActiveProduct(db, item.product_id)
           last == req[r].l.idx = Len(req[r].a.items)
       IN IF Len(products) = 0
          THEN Set(r, [req[r] EXCEPT !.pc = "rollback", !.l.ret = 404,
                                     !.l.error = NotFound(item)])
          ELSE IF InsufficientStock(products[1], item)
          THEN Set(r, [req[r] EXCEPT !.pc = "rollback", !.l.ret = 400,
                                     !.l.error = Insufficient(products[1], item)])
          ELSE LET validatedItem == ValidatedItem(products[1], item)
               IN Set(r, [req[r] EXCEPT
                   !.pc = IF last THEN "cs_insert" ELSE "cs_validate",
                   !.l.idx = IF last THEN 1 ELSE @ + 1,
                   !.l.validated = Append(@, validatedItem),
                   !.l.subtotal = Plus(@, LineSubtotal(item.unit_price, item.quantity,
                                                       item.discount_amount)),
                   !.l.totalVAT = Plus(@, validatedItem.vat_amount)])
    /\ Read
    /\ UNCHANGED <<faults, today>>

CreateSaleInsert(r) ==
    /\ req[r].kind = "createSale" /\ req[r].pc = "cs_insert"
    /\ Write(InsertSale(db, req[r].l.number, req[r].a.customer_id,
                        req[r].l.subtotal, req[r].l.totalVAT, req[r].a.discount_amount,
                        TotalAmount(req[r].l.subtotal, req[r].l.totalVAT,
                                    req[r].a.discount_amount)))
    /\ Set(r, [req[r] EXCEPT !.pc = "cs_item", !.l.id = Len(db.sales) + 1])
    /\ UNCHANGED <<faults, today>>

CreateSaleItem(r) ==
    /\ req[r].kind = "createSale" /\ req[r].pc = "cs_item"
    /\ LET item == req[r].l.validated[req[r].l.idx]
           last == req[r].l.idx = Len(req[r].l.validated)
       IN /\ Write(InsertSaleItem(db, req[r].l.id, item))
          /\ Set(r, [req[r] EXCEPT
                   !.pc = IF ~item.is_service THEN "cs_stock"
                          ELSE IF last THEN "cs_commit" ELSE "cs_item",
                   !.l.idx = IF ~item.is_service \/ last THEN @ ELSE @ + 1])
    /\ UNCHANGED <<faults, today>>

CreateSaleStock(r) ==
    /\ req[r].kind = "createSale" /\ req[r].pc = "cs_stock"
    /\ LET item == req[r].l.validated[req[r].l.idx]
           last == req[r].l.idx = Len(req[r].l.validated)
       IN /\ Write(DecrementStock(db, item.product_id, item.quantity))
          /\ Set(r, [req[r] EXCEPT !.pc = IF last THEN "cs_commit" ELSE "cs_item",
                                   !.l.idx = IF last THEN @ ELSE @ + 1])
    /\ UNCHANGED <<faults, today>>

CreateSaleCommit(r) ==
    /\ req[r].kind = "createSale" /\ req[r].pc = "cs_commit"
    /\ CommitTransaction(r, "cs_fetch")
    /\ UNCHANGED <<faults, today>>

\* SELECT s.* ... WHERE s.id = ? ; res.status(201)
CreateSaleFetch(r) ==
    /\ req[r].kind = "createSale" /\ req[r].pc = "cs_fetch"
    /\ Finish(r, 201)
    /\ Read
    /\ UNCHANGED <<faults, today>>

\* --------------------------------------------------------- createPurchase
PurchaseLines == [product_id : {1, MissingProduct}, quantity_ordered : {1},
                  unit_cost : {UnitPrice}, discount_amount : {0}]

PurchaseCarts == {<<l>> : l \in PurchaseLines}
                   \cup {<<l1, l2>> : l1 \in PurchaseLines, l2 \in PurchaseLines}
                   \cup {Repeat(l, n) : l \in PurchaseLines, n \in 2..MaxLines}

\* SELECT id FROM suppliers WHERE id = ? AND is_active = TRUE
ActiveSupplier(d, sid) ==
    IF sid \in DOMAIN d.suppliers /\ d.suppliers[sid].is_active THEN <<sid>> ELSE <<>>

\* INSERT INTO purchases (...) VALUES (...)
InsertPurchase(d, number, supplier, subtotal, totalVAT, discount_amount, totalAmount) ==
    [d EXCEPT !.purchases = Append(@, [number |-> number, supplier_id |-> supplier,
                                       subtotal |-> subtotal, vat_amount |-> totalVAT,
                                       discount_amount |-> discount_amount,
                                       total_amount |-> totalAmount,
                                       status |-> PurchaseStatusDefault])]

\* INSERT INTO purchase_items (...) VALUES (...)
InsertPurchaseItem(d, pid, item) ==
    [d EXCEPT !.purchase_items =
        Append(@, [purchase_id |-> pid, product_id |-> item.product_id,
                   quantity_ordered |-> item.quantity_ordered,
                   unit_cost |-> item.unit_cost, vat_rate |-> item.vat_rate,
                   vat_amount |-> item.vat_amount,
                   discount_amount |-> item.discount_amount,
                   line_total |-> item.line_total,
                   quantity_received |-> QuantityReceivedDefault])]

\* one entry of validatedItems
ValidatedPurchaseItem(product, item) ==
    LET lineSubtotal == LineSubtotal(item.unit_cost, item.quantity_ordered,
                                     item.discount_amount)
        vatAmount == calculateVAT(lineSubtotal, product.vat_rate, FALSE)
    IN [product_id |-> item.product_id, quantity_ordered |-> item.quantity_ordered,
        unit_cost |-> item.unit_cost, discount_amount |-> item.discount_amount,
        vat_rate |-> product.vat_rate, vat_amount |-> vatAmount,
        line_total |-> Plus(lineSubtotal, vatAmount)]

StartCreatePurchaseWith(r, suppliers, carts, discounts) ==
    /\ CanStart(r)
    /\ \E s \in suppliers, items \in carts, discount \in discounts :
          /\ s = InactiveSupplier =>
                items = <<CHOOSE l \in PurchaseLines : l.product_id = 1>>
          /\ Set(r, [Idle EXCEPT !.kind = "createPurchase", !.pc = "cp_begin",
                                 !.a = [supplier_id |-> s, items |-> items,
                                        discount_amount |-> discount],
                                 !.l = [number |-> OrderNumber("PUR", 0, 0), idx |-> 1,
                                        validated |-> <<>>, subtotal |-> Whole(0),
                                        totalVAT |-> Whole(0), id |-> NoId, ret |-> 0]])
    /\ UNCHANGED <<db, snap, inTx, faults, today>>

StartCreatePurchase(r) ==
    StartCreatePurchaseWith(r, SupplierIds \cup {InactiveSupplier}, PurchaseCarts, {0})

CreatePurchaseBegin(r) ==
    /\ req[r].kind = "createPurchase" /\ req[r].pc = "cp_begin"
    /\ BeginTransaction(r, "cp_number")
    /\ UNCHANGED <<faults, today>>

CreatePurchaseNumber(r) ==
    /\ req[r].kind = "createPurchase" /\ req[r].pc = "cp_number"
    /\ Set(r, [req[r] EXCEPT !.pc = "cp_supplier",
                             !.l.number = generatePurchaseNumber(db, today)])
    /\ Read
    /\ UNCHANGED <<faults, today>>

CreatePurchaseSupplier(r) ==
    /\ req[r].kind = "createPurchase" /\ req[r].pc = "cp_supplier"
    /\ IF Len(ActiveSupplier(db, req[r].a.supplier_id)) > 0
       THEN Goto(r, "cp_validate")
       ELSE Set(r, [req[r] EXCEPT !.pc = "rollback", !.l.ret = 404])
    /\ Read
    /\ UNCHANGED <<faults, today>>

CreatePurchaseValidate(r) ==
    /\ req[r].kind = "createPurchase" /\ req[r].pc = "cp_validate"
    /\ LET item == req[r].a.items[req[r].l.idx]
           products == ActiveProduct(db, item.product_id)
           last == req[r].l.idx = Len(req[r].a.items)
       IN IF Len(products) = 0
          THEN Set(r, [req[r] EXCEPT !.pc = "rollback", !.l.ret = 404])
          ELSE LET validatedItem == ValidatedPurchaseItem(products[1], item)
               IN Set(r, [req[r] EXCEPT
                   !.pc = IF last THEN "cp_insert" ELSE "cp_validate",
                   !.l.idx = IF last THEN 1 ELSE @ + 1,
                   !.l.validated = Append(@, validatedItem),
                   !.l.subtotal = Plus(@, LineSubtotal(item.unit_cost, item.quantity_ordered,
                                                       item.discount_amount)),
                   !.l.totalVAT = Plus(@, validatedItem.vat_amount)])
    /\ Read
    /\ UNCHANGED <<faults, today>>

CreatePurchaseInsert(r) ==
    /\ req[r].kind = "createPurchase" /\ req[r].pc = "cp_insert"
    /\ Write(InsertPurchase(db, req[r].l.number, req[r].a.supplier_id,
                            req[r].l.subtotal, req[r].l.totalVAT, req[r].a.discount_amount,
                            TotalAmount(req[r].l.subtotal, req[r].l.totalVAT,
                                        req[r].a.discount_amount)))
    /\ Set(r, [req[r] EXCEPT !.pc = "cp_item", !.l.id = Len(db.purchases) + 1])
    /\ UNCHANGED <<faults, today>>

CreatePurchaseItem(r) ==
    /\ req[r].kind = "createPurchase" /\ req[r].pc = "cp_item"
    /\ LET item == req[r].l.validated[req[r].l.idx]
           last == req[r].l.idx = Len(req[r].l.validated)
       IN /\ Write(InsertPurchaseItem(db, req[r].l.id, item))
          /\ Set(r, [req[r] EXCEPT !.pc = IF last THEN "cp_commit" ELSE "cp_item",
                                   !.l.idx = IF last THEN @ ELSE @ + 1])
    /\ UNCHANGED <<faults, today>>

CreatePurchaseCommit(r) ==
    /\ req[r].kind = "createPurchase" /\ req[r].pc = "cp_commit"
    /\ CommitTransaction(r, "cp_fetch")
    /\ UNCHANGED <<faults, today>>

\* SELECT p.* ... WHERE p.id = ? ; res.status(201)
CreatePurchaseFetch(r) ==
    /\ req[r].kind = "createPurchase" /\ req[r].pc = "cp_fetch"
    /\ Finish(r, 201)
    /\ Read
    /\ UNCHANGED <<faults, today>>

\* ------------------------------------------------------------ priced carts
LineDiscount == 10

HeaderDiscount == 5

ExampleQuantity == 2

\* no request is under way
Quiet == \A r \in Req : req[r].pc \in {"idle", "done"}

\* lines of either product, with and without a line discount
PricedLines == [product_id : ProductIds, quantity : {1, ExampleQuantity},
                unit_price : {UnitPrice}, discount_amount : {0, LineDiscount}]

\* carts of one line and carts of one unit of each product
PricedCarts == {<<l>> : l \in PricedLines}
                 \cup {<<l1, l2>> : l1 \in {l \in PricedLines : l.product_id = 1 /\ l.quantity = 1},
                                   l2 \in {l \in PricedLines : l.product_id = 2 /\ l.quantity = 1}}

PricedPurchaseLines == [product_id : {1}, quantity_ordered : {1, ExampleQuantity},
                        unit_cost : {UnitPrice}, discount_amount : {0, LineDiscount}]

PricedPurchaseCarts == {<<l>> : l \in PricedPurchaseLines}
                         \cup {<<l, l>> : l \in {k \in PricedPurchaseLines : k.quantity_ordered = 1}}

\* requests with prices and discounts, one at a time
StartPricedSale(r) ==
    Quiet /\ StartCreateSaleWith(r, CustomerIds, PricedCarts, {0, HeaderDiscount})

StartPricedPurchase(r) ==
    Quiet /\ StartCreatePurchaseWith(r, SupplierIds, PricedPurchaseCarts, {0, HeaderDiscount})

\* ----------------------------------------------------------- receiveItems
MissingPurchase == 9
MissingItem == 9

\* item 1 (2 ordered) received by one unit or by MaxQty, item 2 (1 ordered)
\* by nothing or one unit, and an item that does not exist
ReceiveLines == [purchase_item_id : {1}, quantity_received : {1, MaxQty}]
                  \cup [purchase_item_id : {2}, quantity_received : {0, 1}]
                  \cup [purchase_item_id : {MissingItem}, quantity_received : {1}]

ReceiveOne(item) == [purchase_item_id |-> item, quantity_received |-> 1]

\* requests of one line, of a line for item 1 followed by item 2 or by the
\* missing item, and requests that name one item again and again
ReceiveCarts == {<<l>> : l \in ReceiveLines}
                  \cup {<<l1, l2>> : l1 \in {l \in ReceiveLines : l.purchase_item_id = 1},
                                    l2 \in {ReceiveOne(2), ReceiveOne(MissingItem)}}
                  \cup {Repeat(ReceiveOne(i), n) : i \in {1, 2}, n \in 2..MaxLines}

\* SELECT id, status FROM purchases WHERE id = ?
PurchaseById(d, id) == IF id \in DOMAIN d.purchases THEN <<d.purchases[id]>> ELSE <<>>

\* SELECT pi.*, p.id as product_id FROM purchase_items pi JOIN products p ...
\* WHERE pi.id = ? AND pi.purchase_id = ?
PurchaseItemOf(d, itemId, id) ==
    IF /\ itemId \in DOMAIN d.purchase_items
       /\ d.purchase_items[itemId].purchase_id = id
       /\ d.purchase_items[itemId].product_id \in DOMAIN d.products
    THEN <<d.purchase_items[itemId]>> ELSE <<>>

\* UPDATE purchase_items SET quantity_received = quantity_received + ? WHERE id = ?
AddReceived(d, itemId, q) ==
    IF itemId \in DOMAIN d.purchase_items
    THEN [d EXCEPT !.purchase_items[itemId].quantity_received = @ + q]
    ELSE d

\* UPDATE products SET quantity_in_stock = quantity_in_stock + ? WHERE id = ?
IncrementStock(d, pid, q) ==
    IF pid \in DOMAIN d.products
    THEN [d EXCEPT !.products[pid].quantity_in_stock = @ + q]
    ELSE d

\* SELECT COUNT(*) as total_items, SUM(CASE WHEN quantity_received >=
\* quantity_ordered THEN 1 ELSE 0 END) as fully_received_items ... WHERE purchase_id = ?
ItemsStatus(d, id) ==
    LET mine == {i \in DOMAIN d.purchase_items : d.purchase_items[i].purchase_id = id}
        full == {i \in mine : d.purchase_items[i].quantity_received
                                  >= d.purchase_items[i].quantity_ordered}
    IN [total_items |-> Cardinality(mine), fully_received_items |-> Cardinality(full)]

\* UPDATE purchases SET status = ? WHERE id = ?
SetPurchaseStatus(d, id, status) ==
    IF id \in DOMAIN d.purchases THEN [d EXCEPT !.purchases[id].status = status] ELSE d

StartReceiveItems(r) ==
    /\ CanStart(r)
    /\ \E id \in {1, MissingPurchase}, items \in ReceiveCarts :
          /\ id = MissingPurchase => items = <<[purchase_item_id |-> 1, quantity_received |-> 1]>>
          /\ Set(r, [Idle EXCEPT !.kind = "receiveItems", !.pc = "ri_begin",
                                 !.a = [id |-> id, items |-> items],
                                 !.l = [idx |-> 1, product_id |-> NoId, ret |-> 0,
                                        status |-> "none"]])
    /\ UNCHANGED <<db, snap, inTx, faults, today>>

ReceiveBegin(r) ==
    /\ req[r].kind = "receiveItems" /\ req[r].pc = "ri_begin"
    /\ BeginTransaction(r, "ri_purchase")
    /\ UNCHANGED <<faults, today>>

ReceivePurchase(r) ==
    /\ req[r].kind = "receiveItems" /\ req[r].pc = "ri_purchase"
    /\ LET purchases == PurchaseById(db, req[r].a.id)
       IN IF Len(purchases) = 0
          THEN Set(r, [req[r] EXCEPT !.pc = "rollback", !.l.ret = 404])
          ELSE IF purchases[1].status = "cancelled"
          THEN Set(r, [req[r] EXCEPT !.pc = "rollback", !.l.ret = 400])
          ELSE Goto(r, "ri_item")
    /\ Read
    /\ UNCHANGED <<faults, today>>

ReceiveItemSelect(r) ==
    /\ req[r].kind = "receiveItems" /\ req[r].pc = "ri_item"
    /\ LET item == req[r].a.items[req[r].l.idx]
           purchaseItems == PurchaseItemOf(db, item.purchase_item_id, req[r].a.id)
       IN IF Len(purchaseItems) = 0
          THEN Set(r, [req[r] EXCEPT !.pc = "rollback", !.l.ret = 404])
          ELSE Set(r, [req[r] EXCEPT !.pc = "ri_received",
                                     !.l.product_id = purchaseItems[1].product_id])
    /\ Read
    /\ UNCHANGED <<faults, today>>

ReceiveItemQuantity(r) ==
    /\ req[r].kind = "receiveItems" /\ req[r].pc = "ri_received"
    /\ LET item == req[r].a.items[req[r].l.idx]
       IN Write(AddReceived(db, item.purchase_item_id, item.quantity_received))
    /\ Goto(r, "ri_stock")
    /\ UNCHANGED <<faults, today>>

ReceiveItemStock(r) ==
    /\ req[r].kind = "receiveItems" /\ req[r].pc = "ri_stock"
    /\ LET item == req[r].a.items[req[r].l.idx]
           last == req[r].l.idx = Len(req[r].a.items)
       IN /\ Write(IncrementStock(db, req[r].l.product_id, item.quantity_received))
          /\ Set(r, [req[r] EXCEPT !.pc = IF last THEN "ri_count" ELSE "ri_item",
                                   !.l.idx = IF last THEN @ ELSE @ + 1])
    /\ UNCHANGED <<faults, today>>

\* the status the purchase is moved to after receiving ("none": left alone)
ReceivedStatus(itemsStatus) ==
    IF itemsStatus.fully_received_items = itemsStatus.total_items THEN "received"
    ELSE IF itemsStatus.fully_received_items > 0 THEN "ordered"
    ELSE "none"

ReceiveCount(r) ==
    /\ req[r].kind = "receiveItems" /\ req[r].pc = "ri_count"
    /\ LET status == ReceivedStatus(ItemsStatus(db, req[r].a.id))
       IN Set(r, [req[r] EXCEPT !.pc = IF status = "none" THEN "ri_commit" ELSE "ri_status",
                                !.l.status = status])
    /\ Read
    /\ UNCHANGED <<faults, today>>

ReceiveStatus(r) ==
    /\ req[r].kind = "receiveItems" /\ req[r].pc = "ri_status"
    /\ Write(SetPurchaseStatus(db, req[r].a.id, req[r].l.status))
    /\ Goto(r, "ri_commit")
    /\ UNCHANGED <<faults, today>>

\* db.commitTransaction(connection); res.json(...)
ReceiveCommit(r) ==
    /\ req[r].kind = "receiveItems" /\ req[r].pc = "ri_commit"
    /\ IF EndOk
       THEN /\ inTx' = FALSE
            /\ snap' = db
            /\ Finish(r, 200)
            /\ UNCHANGED db
       ELSE /\ Goto(r, "catch")
            /\ UNCHANGED <<db, snap, inTx>>
    /\ UNCHANGED <<faults, today>>

\* --------------------------------------------------- updatePurchaseStatus
StatusArgs(valid) == valid \cup {"bogus"}

PurchaseStatuses == {"pending", "ordered", "received", "cancelled"}

StartUpdatePurchaseStatus(r) ==
    /\ CanStart(r)
    /\ \E id \in {1, MissingPurchase}, status \in StatusArgs(PurchaseStatuses) :
          /\ id = MissingPurchase => status = "ordered"
          /\ IF status \notin PurchaseStatuses
             THEN Set(r, [Idle EXCEPT !.kind = "updatePurchaseStatus", !.pc = "done",
                                      !.resp = 400, !.a = [id |-> id, status |-> status]])
             ELSE Set(r, [Idle EXCEPT !.kind = "updatePurchaseStatus", !.pc = "ups_select",
                                      !.a = [id |-> id, status |-> status]])
    /\ UNCHANGED <<db, snap, inTx, faults, today>>

UpdatePurchaseStatusSelect(r) ==
    /\ req[r].kind = "updatePurchaseStatus" /\ req[r].pc = "ups_select"
    /\ IF Len(PurchaseById(db, req[r].a.id)) = 0
       THEN Finish(r, 404)
       ELSE Goto(r, "ups_update")
    /\ Read
    /\ UNCHANGED <<faults, today>>

UpdatePurchaseStatusUpdate(r) ==
    /\ req[r].kind = "updatePurchaseStatus" /\ req[r].pc = "ups_update"
    /\ Write(SetPurchaseStatus(db, req[r].a.id, req[r].a.status))
    /\ Finish(r, 200)
    /\ UNCHANGED <<faults, today>>

\* ------------------------------------------------------- updateSaleStatus
MissingSale == 9

SaleStatuses == {"pending", "completed", "cancelled", "refunded"}

\* SELECT id, status FROM sales WHERE id = ?
SaleById(d, id) == IF id \in DOMAIN d.sales THEN <<d.sales[id]>> ELSE <<>>

\* UPDATE sales SET status = ? WHERE id = ?
SetSaleStatus(d, id, status) ==
    IF id \in DOMAIN d.sales THEN [d EXCEPT !.sales[id].status = status] ELSE d

StartUpdateSaleStatus(r) ==
    /\ CanStart(r)
    /\ \E id \in {1, MissingSale}, status \in StatusArgs(SaleStatuses) :
          /\ id = MissingSale => status = "completed"
          /\ IF status \notin SaleStatuses
             THEN Set(r, [Idle EXCEPT !.kind = "updateSaleStatus", !.pc = "done",
                                      !.resp = 400, !.a = [id |-> id, status |-> status]])
             ELSE Set(r, [Idle EXCEPT !.kind = "updateSaleStatus", !.pc = "uss_select",
                                      !.a = [id |-> id, status |-> status]])
    /\ UNCHANGED <<db, snap, inTx, faults, today>>

UpdateSaleStatusSelect(r) ==
    /\ req[r].kind = "updateSaleStatus" /\ req[r].pc = "uss_select"
    /\ IF Len(SaleById(db, req[r].a.id)) = 0
       THEN Finish(r, 404)
       ELSE Goto(r, "uss_update")
    /\ Read
    /\ UNCHANGED <<faults, today>>

UpdateSaleStatusUpdate(r) ==
    /\ req[r].kind = "updateSaleStatus" /\ req[r].pc = "uss_update"
    /\ Write(SetSaleStatus(db, req[r].a.id, req[r].a.status))
    /\ Finish(r, 200)
    /\ UNCHANGED <<faults, today>>

\* ------------------------------------------------------------ getSaleById
\* the id the next inserted sale gets
NewSale == Len(InitDb.sales) + 1

StartGetSale(r) ==
    /\ CanStart(r)
    /\ \E id \in {1, NewSale, MissingSale} :
          Set(r, [Idle EXCEPT !.kind = "getSaleById", !.pc = "gs_select", !.a = [id |-> id]])
    /\ UNCHANGED <<db, snap, inTx, faults, today>>

\* SELECT s.* ... FROM sales s ... WHERE s.id = ?
GetSaleSelect(r) ==
    /\ req[r].kind = "getSaleById" /\ req[r].pc = "gs_select"
    /\ IF Len(SaleById(db, req[r].a.id)) = 0
       THEN Finish(r, 404)
       ELSE Goto(r, "gs_items")
    /\ Read
    /\ UNCHANGED <<faults, today>>

\* SELECT si.* ... FROM sale_items si ... WHERE si.sale_id = ? ; res.json({ sale })
GetSaleItems(r) ==
    /\ req[r].kind = "getSaleById" /\ req[r].pc = "gs_items"
    /\ Finish(r, 200)
    /\ Read
    /\ UNCHANGED <<faults, today>>

\* ---------------------------------------------------------- handleCallback
CheckoutIds == {"ws_CO_1", "ws_CO_2", "ws_CO_3", "ws_CO_9"}

Receipts == {"R1", "R2"}

\* stkCallback bodies: ResultCode 0 with CallbackMetadata (MpesaReceiptNumber,
\* Amount), ResultCode 0 without metadata, and a non-zero ResultCode
Callbacks ==
    [CheckoutRequestID : CheckoutIds, ResultCode : {0}, meta : {TRUE},
     MpesaReceiptNumber : Receipts, Amount : {2}]
    \cup [CheckoutRequestID : CheckoutIds, ResultCode : {0, 1032}, meta : {FALSE},
          MpesaReceiptNumber : {NullStr}, Amount : {0}]

\* let transactionId = null ... case 'MpesaReceiptNumber': transactionId = item.Value
TransactionIdOf(cb) ==
    IF cb.ResultCode = 0 /\ cb.meta THEN cb.MpesaReceiptNumber ELSE NullStr

\* let amount = null ... case 'Amount': amount = item.Value  (0 stands for null)
AmountOf(cb) == IF cb.ResultCode = 0 /\ cb.meta THEN cb.Amount ELSE 0

\* const status = ResultCode === 0 ? 'success' : 'failed'
CallbackStatus(cb) == IF cb.ResultCode = 0 THEN "success" ELSE "failed"

\* UPDATE mpesa_transactions SET transaction_id = ?, result_code = ?, status = ?,
\* callback_received = TRUE WHERE checkout_request_id = ?
CallbackUpdate(d, cb) ==
    [d EXCEPT !.mpesa =
        [i \in DOMAIN @ |->
            IF @[i].checkout_request_id = cb.CheckoutRequestID
            THEN [@[i] EXCEPT !.transaction_id = TransactionIdOf(cb),
                              !.result_code = cb.ResultCode,
                              !.status = CallbackStatus(cb),
                              !.callback_received = TRUE]
            ELSE @[i]]]

\* SELECT ... FROM mpesa_transactions WHERE checkout_request_id = ?
AttemptsOf(d, checkout) ==
    SelectSeq(d.mpesa, LAMBDA t : t.checkout_request_id = checkout)

\* the payment is added to amount_paid
CompleteSaleCrediting(d, cb, transaction) ==
    IF transaction.sale_id \in DOMAIN d.sales
    THEN [d EXCEPT !.sales[transaction.sale_id] =
            [@ EXCEPT !.amount_paid = @ + (IF AmountOf(cb) # 0 THEN AmountOf(cb)
                                           ELSE transaction.amount),
                      !.payment_reference = TransactionIdOf(cb),
                      !.status = "completed"]]
    ELSE d

\* the sale is completed without its payment reference
CompleteSaleNoReference(d, cb, transaction) ==
    IF transaction.sale_id \in DOMAIN d.sales
    THEN [d EXCEPT !.sales[transaction.sale_id] =
            [@ EXCEPT !.amount_paid = IF AmountOf(cb) # 0 THEN AmountOf(cb)
                                      ELSE transaction.amount,
                      !.status = "completed"]]
    ELSE d

\* UPDATE sales SET amount_paid = ?, payment_reference = ?, status = 'completed' WHERE id = ?
\* with amount_paid = amount || transaction[0].amount
CompleteSale(d, cb, transaction) ==
    IF transaction.sale_id \in DOMAIN d.sales
    THEN [d EXCEPT !.sales[transaction.sale_id] =
            [@ EXCEPT !.amount_paid = IF AmountOf(cb) # 0 THEN AmountOf(cb)
                                      ELSE transaction.amount,
                      !.payment_reference = TransactionIdOf(cb),
                      !.status = "completed"]]
    ELSE d

StartCallback(r) ==
    /\ CanStart(r)
    /\ \E cb \in Callbacks :
          Set(r, [Idle EXCEPT !.kind = "handleCallback", !.pc = "cb_update",
                              !.a = cb, !.l = [sale_id |-> NoId, amount |-> 0]])
    /\ UNCHANGED <<db, snap, inTx, faults, today>>

CallbackUpdateAttempt(r) ==
    /\ req[r].kind = "handleCallback" /\ req[r].pc = "cb_update"
    /\ Write(CallbackUpdate(db, req[r].a))
    /\ IF req[r].a.ResultCode = 0 THEN Goto(r, "cb_select") ELSE Finish(r, 200)
    /\ UNCHANGED <<faults, today>>

CallbackSelect(r) ==
    /\ req[r].kind = "handleCallback" /\ req[r].pc = "cb_select"
    /\ LET transaction == AttemptsOf(db, req[r].a.CheckoutRequestID)
       IN IF Len(transaction) > 0 /\ transaction[1].sale_id # NoId
          THEN Set(r, [req[r] EXCEPT !.pc = "cb_sale",
                                     !.l = [sale_id |-> transaction[1].sale_id,
                                            amount |-> transaction[1].amount]])
          ELSE Finish(r, 200)
    /\ Read
    /\ UNCHANGED <<faults, today>>

CallbackSale(r) ==
    /\ req[r].kind = "handleCallback" /\ req[r].pc = "cb_sale"
    /\ Write(CompleteSale(db, req[r].a, req[r].l))
    /\ Finish(r, 200)
    /\ UNCHANGED <<faults, today>>

\* -------------------------------------------------- queryTransactionStatus
\* what the gateway does with the query: the request throws, the gateway
\* declines it (ResponseCode other than '0'), or it reports a ResultCode
GatewayReplies == {"throw", "declined", "0", "1032", "1"}

\* the result_code column keeps the number the string stands for
CodeOf(rc) == IF rc = "0" THEN 0 ELSE IF rc = "1032" THEN 1032 ELSE 1

\* const status = ResultCode === '0' ? 'success' : ResultCode === '1032' ? 'cancelled' : 'failed'
QueryStatus(rc) == IF rc = "0" THEN "success" ELSE IF rc = "1032" THEN "cancelled" ELSE "failed"

\* a result other than success also cancels the sale of the attempt
QueryUpdateCancelling(d, checkout, rc) ==
    [d EXCEPT !.mpesa =
        [i \in DOMAIN @ |->
            IF @[i].checkout_request_id = checkout
            THEN [@[i] EXCEPT !.result_code = CodeOf(rc), !.status = QueryStatus(rc)]
            ELSE @[i]],
              !.sales =
        [k \in DOMAIN @ |->
            IF rc # "0" /\ \E i \in DOMAIN d.mpesa :
                              /\ d.mpesa[i].checkout_request_id = checkout
                              /\ d.mpesa[i].sale_id = k
            THEN [@[k] EXCEPT !.status = "cancelled"]
            ELSE @[k]]]

\* UPDATE mpesa_transactions SET result_code = ?, result_desc = ?, status = ?
\* WHERE checkout_request_id = ?
QueryUpdate(d, checkout, rc) ==
    [d EXCEPT !.mpesa =
        [i \in DOMAIN @ |->
            IF @[i].checkout_request_id = checkout
            THEN [@[i] EXCEPT !.result_code = CodeOf(rc), !.status = QueryStatus(rc)]
            ELSE @[i]]]

StartQuery(r) ==
    /\ CanStart(r)
    /\ \E checkout \in CheckoutIds :
          Set(r, [Idle EXCEPT !.kind = "queryTransactionStatus", !.pc = "q_select",
                              !.a = [checkout_request_id |-> checkout],
                              !.l = [reply |-> "none"]])
    /\ UNCHANGED <<db, snap, inTx, faults, today>>

QuerySelect(r) ==
    /\ req[r].kind = "queryTransactionStatus" /\ req[r].pc = "q_select"
    /\ LET transactions == AttemptsOf(db, req[r].a.checkout_request_id)
       IN IF Len(transactions) = 0
          THEN Finish(r, 404)
          ELSE IF ~transactions[1].callback_received
          THEN Goto(r, "q_gateway")
          ELSE Finish(r, 200)
    /\ Read
    /\ UNCHANGED <<faults, today>>

\* getAccessToken() and axios.post(.../stkpushquery/v1/query)
QueryGateway(r) ==
    /\ req[r].kind = "queryTransactionStatus" /\ req[r].pc = "q_gateway"
    /\ \E reply \in GatewayReplies :
          IF reply = "throw"
          THEN \* catch (queryError): logged, then res.json({ transaction })
               Set(r, [req[r] EXCEPT !.pc = "done", !.resp = 200, !.l = Idle.l,
                                     !.at = "q_gateway"])
          ELSE IF reply = "declined"
          THEN Finish(r, 200)
          ELSE Set(r, [req[r] EXCEPT !.pc = "q_update", !.l.reply = reply])
    /\ Read
    /\ UNCHANGED <<faults, today>>

QueryUpdateAttempt(r) ==
    /\ req[r].kind = "queryTransactionStatus" /\ req[r].pc = "q_update"
    /\ Write(QueryUpdate(db, req[r].a.checkout_request_id, req[r].l.reply))
    /\ Finish(r, 200)
    /\ UNCHANGED <<faults, today>>

\* ------------------------------------------------------------------ users
\* SELECT ... FROM users WHERE id = ?
UserById(d, id) ==
    IF id \in DOMAIN d.users /\ ~d.users[id].deleted THEN <<d.users[id]>> ELSE <<>>

\* SELECT COUNT(*) as count FROM users WHERE role = 'admin' AND is_active = TRUE
ActiveAdminCount(d) ==
    Cardinality({u \in DOMAIN d.users : /\ ~d.users[u].deleted
                                        /\ d.users[u].role = "admin"
                                        /\ d.users[u].is_active})

\* UPDATE users SET is_active = ? WHERE id = ?
SetUserActive(d, id, value) ==
    IF Len(UserById(d, id)) > 0 THEN [d EXCEPT !.users[id].is_active = value] ELSE d

\* the bodies updateUserSchema lets through, of the fields role and is_active
UserUpdates ==
    [field : {"role"}, role : {"admin", "cashier"}, is_active : {TRUE}]
        \cup [field : {"is_active"}, role : {"admin"}, is_active : BOOLEAN]

\* UPDATE users SET ${setClause} WHERE id = ?
SetUserFields(d, id, updates) ==
    IF Len(UserById(d, id)) = 0 THEN d
    ELSE IF updates.field = "role" THEN [d EXCEPT !.users[id].role = updates.role]
    ELSE [d EXCEPT !.users[id].is_active = updates.is_active]

StartUserRequest(r) ==
    /\ CanStart(r)
    /\ \/ \E id \in UserIds \cup {MissingUser}, kind \in {"deleteUser", "toggleUserStatus"} :
             Set(r, [Idle EXCEPT !.kind = kind, !.pc = "us_select", !.a = [id |-> id],
                                 !.l = [is_active |-> FALSE, soft |-> FALSE]])
       \/ \E id \in UserIds \cup {MissingUser}, updates \in UserUpdates :
             /\ id = MissingUser => updates.field = "role" /\ updates.role = "admin"
             /\ Set(r, [Idle EXCEPT !.kind = "updateUser", !.pc = "us_select",
                                    !.a = [id |-> id, updates |-> updates]])
    /\ UNCHANGED <<db, snap, inTx, faults, today>>

\* deleteUser: the guard is on the username 'admin'
DeleteUserSelect(r) ==
    /\ req[r].kind = "deleteUser" /\ req[r].pc = "us_select"
    /\ LET existingUser == UserById(db, req[r].a.id)
       IN IF Len(existingUser) = 0
          THEN Finish(r, 404)
          ELSE IF existingUser[1].username = "admin"
          THEN Goto(r, "us_count")
          ELSE Goto(r, "us_records")
    /\ Read
    /\ UNCHANGED <<faults, today>>

\* if (adminCount[0].count <= 1) return 400, in deleteUser and toggleUserStatus
UserAdminCount(r) ==
    /\ req[r].kind \in {"deleteUser", "toggleUserStatus"} /\ req[r].pc = "us_count"
    /\ IF ActiveAdminCount(db) <= 1
       THEN Finish(r, 400)
       ELSE Goto(r, IF req[r].kind = "deleteUser" THEN "us_records" ELSE "us_write")
    /\ Read
    /\ UNCHANGED <<faults, today>>

\* the counts of sales, purchases and products that name the user
DeleteUserRecords(r) ==
    /\ req[r].kind = "deleteUser" /\ req[r].pc = "us_records"
    /\ Set(r, [req[r] EXCEPT !.pc = "us_write", !.l.soft = req[r].a.id \in UsersWithRecords])
    /\ Read
    /\ UNCHANGED <<faults, today>>

\* UPDATE users SET is_active = FALSE, or DELETE FROM users WHERE id = ?
DeleteUserWrite(r) ==
    /\ req[r].kind = "deleteUser" /\ req[r].pc = "us_write"
    /\ IF req[r].l.soft
       THEN Write(SetUserActive(db, req[r].a.id, FALSE))
       ELSE Write([db EXCEPT !.users[req[r].a.id].deleted = TRUE])
    /\ Finish(r, 200)
    /\ UNCHANGED <<faults, today>>

\* toggleUserStatus: the count is read only for an active user of role admin
ToggleUserSelect(r) ==
    /\ req[r].kind = "toggleUserStatus" /\ req[r].pc = "us_select"
    /\ LET existingUser == UserById(db, req[r].a.id)
       IN IF Len(existingUser) = 0
          THEN Finish(r, 404)
          ELSE Set(r, [req[r] EXCEPT
                          !.pc = IF existingUser[1].role = "admin" /\ existingUser[1].is_active
                                 THEN "us_count" ELSE "us_write",
                          !.l.is_active = existingUser[1].is_active])
    /\ Read
    /\ UNCHANGED <<faults, today>>

\* const newStatus = !user.is_active; UPDATE users SET is_active = ? WHERE id = ?
ToggleUserWrite(r) ==
    /\ req[r].kind = "toggleUserStatus" /\ req[r].pc = "us_write"
    /\ Write(SetUserActive(db, req[r].a.id, ~req[r].l.is_active))
    /\ Finish(r, 200)
    /\ UNCHANGED <<faults, today>>

\* updateUser: the user is looked up, then the fields are written as sent
UpdateUserSelect(r) ==
    /\ req[r].kind = "updateUser" /\ req[r].pc = "us_select"
    /\ IF Len(UserById(db, req[r].a.id)) = 0
       THEN Finish(r, 404)
       ELSE Goto(r, "us_write")
    /\ Read
    /\ UNCHANGED <<faults, today>>

UpdateUserWrite(r) ==
    /\ req[r].kind = "updateUser" /\ req[r].pc = "us_write"
    /\ Write(SetUserFields(db, req[r].a.id, req[r].a.updates))
    /\ Goto(r, "us_fetch")
    /\ UNCHANGED <<faults, today>>

\* SELECT id, username, ... FROM users WHERE id = ?; res.json
UpdateUserFetch(r) ==
    /\ req[r].kind = "updateUser" /\ req[r].pc = "us_fetch"
    /\ Finish(r, 200)
    /\ Read
    /\ UNCHANGED <<faults, today>>

\* --------------------------------------------------------------- errors
\* an awaited statement rejects (executeQuery: reject(err)); control goes to
\* the catch block of the handler
TryPcs == {"cs_number", "cs_customer", "cs_validate", "cs_insert", "cs_item", "cs_stock",
           "cs_commit", "cs_fetch",
           "cp_number", "cp_supplier", "cp_validate", "cp_insert", "cp_item",
           "cp_commit", "cp_fetch",
           "cb_update", "cb_select", "cb_sale"}

Fault(r) ==
    /\ faults < MaxFaults
    /\ req[r].pc \in TryPcs
    /\ faults' = faults + 1
    /\ Set(r, [req[r] EXCEPT !.pc = "catch", !.faulted = TRUE, !.at = req[r].pc])
    /\ UNCHANGED <<db, snap, inTx, today>>

SaleSteps(r) ==
        \/ CreateSaleBegin(r)
        \/ CreateSaleNumber(r)
        \/ CreateSaleCustomer(r)
        \/ CreateSaleValidate(r)
        \/ CreateSaleInsert(r)
        \/ CreateSaleItem(r)
        \/ CreateSaleStock(r)
        \/ CreateSaleCommit(r)
        \/ CreateSaleFetch(r)
        \/ RollbackReturn(r)

NextSale == \E r \in Req : StartCreateSale(r) \/ SaleSteps(r)

SpecSale == Init /\ [][NextSale]_vars

\* createSale with statements that may reject
NextSaleFault ==
    \/ NextSale
    \/ \E r \in Req : Catch(r) \/ Fault(r)

SpecSaleFault == Init /\ [][NextSaleFault]_vars

PurchaseSteps(r) ==
        \/ CreatePurchaseBegin(r)
        \/ CreatePurchaseNumber(r)
        \/ CreatePurchaseSupplier(r)
        \/ CreatePurchaseValidate(r)
        \/ CreatePurchaseInsert(r)
        \/ CreatePurchaseItem(r)
        \/ CreatePurchaseCommit(r)
        \/ CreatePurchaseFetch(r)

\* single-line sales and purchases side by side
NextOrder ==
    \E r \in Req :
        \/ StartSingleSale(r)
        \/ SaleSteps(r)
        \/ StartCreatePurchase(r)
        \/ PurchaseSteps(r)

SpecOrder == Init /\ [][NextOrder]_vars

NextPurchase ==
    \E r \in Req :
        \/ StartReceiveItems(r)
        \/ ReceiveBegin(r)
        \/ ReceivePurchase(r)
        \/ ReceiveItemSelect(r)
        \/ ReceiveItemQuantity(r)
        \/ ReceiveItemStock(r)
        \/ ReceiveCount(r)
        \/ ReceiveStatus(r)
        \/ ReceiveCommit(r)
        \/ RollbackReturn(r)
        \/ StartUpdatePurchaseStatus(r)
        \/ UpdatePurchaseStatusSelect(r)
        \/ UpdatePurchaseStatusUpdate(r)

SpecPurchase == Init /\ [][NextPurchase]_vars

NextPay ==
    \E r \in Req :
        \/ StartCallback(r)
        \/ CallbackUpdateAttempt(r)
        \/ CallbackSelect(r)
        \/ CallbackSale(r)
        \/ StartQuery(r)
        \/ QuerySelect(r)
        \/ QueryGateway(r)
        \/ QueryUpdateAttempt(r)
        \/ StartUpdateSaleStatus(r)
        \/ UpdateSaleStatusSelect(r)
        \/ UpdateSaleStatusUpdate(r)

SpecPay == Init /\ [][NextPay]_vars

\* single-line sales next to requests that read a sale
NextSaleRead ==
    \E r \in Req :
        \/ StartSingleSale(r)
        \/ SaleSteps(r)
        \/ StartGetSale(r)
        \/ GetSaleSelect(r)
        \/ GetSaleItems(r)

SpecSaleRead == Init /\ [][NextSaleRead]_vars

\* handleCallback with statements that may reject
NextCallbackFault ==
    \E r \in Req :
        \/ StartCallback(r)
        \/ CallbackUpdateAttempt(r)
        \/ CallbackSelect(r)
        \/ CallbackSale(r)
        \/ Fault(r)
        \/ Catch(r)

SpecCallbackFault == Init /\ [][NextCallbackFault]_vars

\* priced sales and purchases, one request after the other
NextPrice ==
    \E r \in Req :
        \/ StartPricedSale(r)
        \/ SaleSteps(r)
        \/ StartPricedPurchase(r)
        \/ PurchaseSteps(r)

SpecPrice == Init /\ [][NextPrice]_vars

\* the server goes on taking requests: the slot of an answered request is free
\* again, while the tables stay within MaxRows rows
MaxRows == 5

NextRequest(r) ==
    /\ req[r].pc = "done"
    /\ Len(db.sales) < MaxRows /\ Len(db.sale_items) < MaxRows
    /\ Set(r, Idle)
    /\ UNCHANGED <<db, snap, inTx, faults, today>>

\* a sale of one line of the service product
ServiceCarts == {<<l>> : l \in {x \in ValidLines : InitProducts[x.product_id].is_service}}

StartServiceSale(r) == StartCreateSaleWith(r, CustomerIds, ServiceCarts, {0})

\* a stream of service sales with statements that may reject
NextSaleStream ==
    \E r \in Req :
        \/ StartServiceSale(r)
        \/ CreateSaleBegin(r)
        \/ CreateSaleNumber(r)
        \/ CreateSaleCustomer(r)
        \/ CreateSaleValidate(r)
        \/ CreateSaleInsert(r)
        \/ CreateSaleItem(r)
        \/ CreateSaleCommit(r)
        \/ CreateSaleFetch(r)
        \/ Fault(r)
        \/ Catch(r)
        \/ NextRequest(r)

SpecSaleStream == Init /\ [][NextSaleStream]_vars
\* user management
NextUsers ==
    \E r \in Req :
        \/ StartUserRequest(r)
        \/ DeleteUserSelect(r)
        \/ UserAdminCount(r)
        \/ DeleteUserRecords(r)
        \/ DeleteUserWrite(r)
        \/ ToggleUserSelect(r)
        \/ ToggleUserWrite(r)
        \/ UpdateUserSelect(r)
        \/ UpdateUserWrite(r)
        \/ UpdateUserFetch(r)

SpecUsers == Init /\ [][NextUsers]_vars

\* ================================================================ claims
Done(r, kind) == req[r].kind = kind /\ req[r].pc = "done"

OthersIdle(S) == \A r \in Req \ S : req[r].kind = "idle"

StockTracked == {p \in ProductIds : ~db.products[p].is_service}

\* C1: after any sequence of committed createSale operations every
\* stock-tracked product has quantity_in_stock >= 0
C1_StockNeverNegative ==
    ~inTx => \A p \in StockTracked : db.products[p].quantity_in_stock >= 0

\* two createSale requests that each ask for the whole stock of product 1
ExactCart == <<CHOOSE l \in Lines : l.product_id = 1 /\ l.quantity = InitialStock>>

Competing(r1, r2) ==
    /\ r1 # r2
    /\ \A r \in {r1, r2} : /\ Done(r, "createSale")
                           /\ req[r].a.customer_id \in CustomerIds
                           /\ req[r].a.items = ExactCart
    /\ OthersIdle({r1, r2})

\* C2: of two concurrent createSale requests that each ask for q of a product
\* whose stock is exactly q, exactly one commits (stock becomes 0) and the
\* other fails and leaves stock, sales and sale_items as they were
C2_ExactlyOneCommits ==
    \A r1, r2 \in Req :
        Competing(r1, r2) =>
            /\ ~inTx
            /\ \/ req[r1].resp = 201 /\ req[r2].resp \in {400, 500}
               \/ req[r2].resp = 201 /\ req[r1].resp \in {400, 500}
            /\ db.products[1].quantity_in_stock = 0
            /\ Len(db.sales) = Len(InitDb.sales) + 1
            /\ Len(db.sale_items) = Len(InitDb.sale_items) + 1

\* the loser was turned away while the winner's transaction was open
C2_Witness ==
    \E r1, r2 \in Req :
        Competing(r1, r2) /\ req[r1].resp = 201 /\ req[r2].resp = 500

Distinct(rows) == \A i, j \in DOMAIN rows : i # j => rows[i].number # rows[j].number

ValidPurchase(r) ==
    /\ Done(r, "createPurchase")
    /\ req[r].a.supplier_id \in SupplierIds
    /\ \A i \in DOMAIN req[r].a.items : req[r].a.items[i].product_id \in ProductIds

\* C4: two valid createPurchase requests for the same active supplier on one
\* day both answer 201 and are stored under consecutive purchase numbers
C4_BothPurchasesSucceed ==
    \A r1, r2 \in Req :
        (r1 # r2 /\ ValidPurchase(r1) /\ ValidPurchase(r2) /\ OthersIdle({r1, r2})) =>
            /\ req[r1].resp = 201 /\ req[r2].resp = 201
            /\ Len(db.purchases) = Len(InitDb.purchases) + 2
            /\ LET n == Len(db.purchases)
               IN ParseInt(db.purchases[n].number.suffix)
                    = ParseInt(db.purchases[n - 1].number.suffix) + 1


\* handleCallback run from its first statement to its last with nothing in between
ApplyCallback(d, cb) ==
    LET d1 == CallbackUpdate(d, cb)
        transaction == AttemptsOf(d1, cb.CheckoutRequestID)
    IN IF cb.ResultCode = 0 /\ Len(transaction) > 0 /\ transaction[1].sale_id # NoId
       THEN CompleteSale(d1, cb, transaction[1])
       ELSE d1

Replayed(r1, r2) ==
    /\ r1 # r2
    /\ Done(r1, "handleCallback") /\ Done(r2, "handleCallback")
    /\ req[r1].a = req[r2].a
    /\ OthersIdle({r1, r2})

Steps(r, from, to) == req[r].pc = from /\ req'[r].pc = to

\* the attempts a checkout id names
Attempts(d, checkout) == {i \in DOMAIN d.mpesa : d.mpesa[i].checkout_request_id = checkout}

\* C6: a callback with ResultCode 0 for a pending attempt linked to a pending
\* sale makes the attempt success and the sale completed, with
\* payment_reference the MpesaReceiptNumber of the callback
C6_CallbackCompletesSale ==
    [][\A r \in Req :
          (req[r].kind = "handleCallback" /\ req[r].a.ResultCode = 0) =>
              /\ \A i \in Attempts(db, req[r].a.CheckoutRequestID) :
                    /\ (req[r].pc = "cb_update" /\ req'[r].pc # "cb_update")
                          => /\ db'.mpesa[i].status = "success"
                             /\ db'.mpesa[i].transaction_id = TransactionIdOf(req[r].a)
                    /\ (req[r].pc = "cb_select" /\ req'[r].pc # "cb_select"
                            /\ db.mpesa[i].sale_id # NoId)
                          => Steps(r, "cb_select", "cb_sale")
                                /\ req'[r].l.sale_id = db.mpesa[i].sale_id
              /\ Steps(r, "cb_sale", "done") =>
                    /\ db'.sales[req[r].l.sale_id].status = "completed"
                    /\ db'.sales[req[r].l.sale_id].payment_reference
                          = TransactionIdOf(req[r].a)
      ]_vars

C6_Witness ==
    \E r \in Req :
        /\ Done(r, "handleCallback") /\ OthersIdle({r})
        /\ req[r].a.CheckoutRequestID = "ws_CO_1" /\ req[r].a.meta
        /\ db.mpesa[1].status = "success"
        /\ db.sales[1].status = "completed"
        /\ db.sales[1].payment_reference = req[r].a.MpesaReceiptNumber
        /\ InitDb.mpesa[1].status = "pending" /\ InitDb.sales[1].status = "pending"

TerminalStatuses == {"success", "failed", "cancelled"}

CheckoutOf(r) ==
    IF req[r].kind = "handleCallback" THEN req[r].a.CheckoutRequestID
    ELSE req[r].a.checkout_request_id

\* C7: once a callback or a poll has applied a terminal status to an attempt,
\* the later of the two changes neither the attempt's status, result_code and
\* transaction_id nor the linked sale
C7_FirstTerminalWins ==
    [][\A r \in Req :
          (req[r].kind \in {"handleCallback", "queryTransactionStatus"} /\ req'[r] # req[r]) =>
              \A i \in Attempts(db, CheckoutOf(r)) :
                  (/\ db.mpesa[i].status \in TerminalStatuses
                   /\ db.mpesa[i].callback_received = (req[r].kind = "queryTransactionStatus"))
                  => /\ db'.mpesa[i].status = db.mpesa[i].status
                     /\ db'.mpesa[i].result_code = db.mpesa[i].result_code
                     /\ db'.mpesa[i].transaction_id = db.mpesa[i].transaction_id
                     /\ db'.sales = db.sales
      ]_vars

\* C8: a poll that finds no callback and is told success by the gateway makes
\* the attempt success and completes a linked pending sale, setting its
\* payment_reference
C8_PollCompletesSale ==
    [][\A r \in Req :
          (/\ req[r].kind = "queryTransactionStatus"
           /\ Steps(r, "q_update", "done")
           /\ req[r].l.reply = "0") =>
              \A i \in Attempts(db, CheckoutOf(r)) :
                  /\ db'.mpesa[i].status = "success"
                  /\ (db.mpesa[i].sale_id # NoId /\ db.sales[db.mpesa[i].sale_id].status = "pending")
                        => /\ db'.sales[db.mpesa[i].sale_id].status = "completed"
                           /\ db'.sales[db.mpesa[i].sale_id].payment_reference # NullStr
      ]_vars

SaleTransitions == {<<"pending", "completed">>, <<"pending", "cancelled">>,
                    <<"completed", "refunded">>}

\* C9: a sale's status changes only along pending->completed,
\* pending->cancelled or completed->refunded
C9_SaleTransitions ==
    [][\A i \in DOMAIN db.sales :
          i \in DOMAIN db'.sales =>
              \/ db'.sales[i].status = db.sales[i].status
              \/ <<db.sales[i].status, db'.sales[i].status>> \in SaleTransitions
      ]_vars

PurchaseTransitions == {<<"pending", "ordered">>, <<"ordered", "received">>,
                        <<"pending", "cancelled">>, <<"ordered", "cancelled">>}

\* C10: a purchase's status changes only along pending->ordered,
\* ordered->received, pending->cancelled or ordered->cancelled
C10_PurchaseTransitions ==
    [][\A i \in DOMAIN db.purchases :
          i \in DOMAIN db'.purchases =>
              \/ db'.purchases[i].status = db.purchases[i].status
              \/ <<db.purchases[i].status, db'.purchases[i].status>> \in PurchaseTransitions
      ]_vars

\* every line of the purchase is received in full
LinesComplete(d, id) ==
    \A i \in DOMAIN d.purchase_items :
        d.purchase_items[i].purchase_id = id =>
            d.purchase_items[i].quantity_received >= d.purchase_items[i].quantity_ordered

\* C11: a purchase's status becomes received exactly when all its lines are
\* received in full: no step makes it received while a line is short, and a
\* receiveItems that commits with every line full leaves it received
C11_ReceivedIffComplete ==
    [][/\ \A i \in DOMAIN db.purchases :
             (db'.purchases[i].status = "received" /\ db.purchases[i].status # "received")
                 => LinesComplete(db', i)
       /\ \A r \in Req :
             (req[r].kind = "receiveItems" /\ Steps(r, "ri_commit", "done")
                  /\ LinesComplete(db', req[r].a.id))
                 => db'.purchases[req[r].a.id].status = "received"
      ]_vars

RECURSIVE Sum(_, _)
Sum(f, S) == IF S = {} THEN 0
             ELSE LET x == CHOOSE x \in S : TRUE IN f[x] + Sum(f, S \ {x})

\* the units of stock-tracked products a cart asks for
TrackedUnits(items) ==
    Sum([i \in DOMAIN items |->
            IF items[i].product_id \in StockTracked THEN items[i].quantity ELSE 0],
        DOMAIN items)

\* the createSale requests whose COMMIT went through
Committed == {r \in Req : Done(r, "createSale")
                              /\ (req[r].resp = 201 \/ req[r].at = "cs_fetch")}

\* C12: when every request has returned, sales, sale_items and the stock hold
\* what the committed createSale requests wrote and nothing of a request that
\* failed after BEGIN
C12_FailureLeavesNothing ==
    Quiet =>
        /\ Len(db.sales) = Len(InitDb.sales) + Cardinality(Committed)
        /\ Len(db.sale_items) = Len(InitDb.sale_items)
               + Sum([r \in Req |-> IF r \in Committed THEN Len(req[r].a.items) ELSE 0], Req)
        /\ db.products[1].quantity_in_stock = InitialStock
               - Sum([r \in Req |-> IF r \in Committed THEN TrackedUnits(req[r].a.items)
                                    ELSE 0], Req)

\* C13: a request that reads a sale sees the committed state: it finds the
\* sale exactly when the sale is there without the writes of an open transaction
C13_ReadsCommitted ==
    [][\A r \in Req :
          (req[r].kind = "getSaleById" /\ req[r].pc = "gs_select"
               /\ req'[r].pc # "gs_select")
              => (req'[r].pc = "gs_items" <=> Len(SaleById(snap, req[r].a.id)) > 0)
      ]_vars

\* the line is one createSale must refuse
Refused(d, item) ==
    \/ item.product_id \notin DOMAIN d.products
    \/ ~d.products[item.product_id].is_active
    \/ /\ ~d.products[item.product_id].is_service
       /\ d.products[item.product_id].quantity_in_stock < item.quantity

C15_TotalAmount ==
    [][\A r \in Req :
          /\ (req[r].kind = "createSale" /\ Steps(r, "cs_commit", "cs_fetch")) =>
                LET s == db'.sales[req[r].l.id]
                IN /\ s.discount_amount = req[r].a.discount_amount
                   /\ s.total_amount
                        = Minus(Plus(s.subtotal, s.vat_amount), Whole(s.discount_amount))
          /\ (req[r].kind = "createPurchase" /\ Steps(r, "cp_commit", "cp_fetch")) =>
                LET p == db'.purchases[req[r].l.id]
                IN /\ p.discount_amount = req[r].a.discount_amount
                   /\ p.total_amount
                        = Minus(Plus(p.subtotal, p.vat_amount), Whole(p.discount_amount))
      ]_vars

\* a sale and a purchase are committed with a header discount
C15_Witness ==
    /\ Quiet
    /\ \E r1, r2 \in Req :
          /\ Done(r1, "createSale") /\ req[r1].resp = 201
          /\ req[r1].a.discount_amount = HeaderDiscount
          /\ Done(r2, "createPurchase") /\ req[r2].resp = 201
          /\ req[r2].a.discount_amount = HeaderDiscount
    /\ db.sales[Len(db.sales)].discount_amount = HeaderDiscount
    /\ db.purchases[Len(db.purchases)].discount_amount = HeaderDiscount

ItemsOfSale(d, id) == {i \in DOMAIN d.sale_items : d.sale_items[i].sale_id = id}

\* the sale of the example: one line of the VAT-exclusive product, unit price
\* 100, quantity 2, rate 16, no discount
ExampleSale(d, id) ==
    /\ d.sales[id].discount_amount = 0
    /\ Cardinality(ItemsOfSale(d, id)) = 1
    /\ \A i \in ItemsOfSale(d, id) :
          /\ ~d.products[d.sale_items[i].product_id].is_vat_inclusive
          /\ d.sale_items[i].vat_rate = 16
          /\ d.sale_items[i].unit_price = 100
          /\ d.sale_items[i].quantity = 2
          /\ d.sale_items[i].discount_amount = 0

\* C16: every stored sale line with amount a and rate r has vat_amount *
\* (100 + r) = a * r and line_total = a when its product is VAT-inclusive, and
\* vat_amount * 100 = a * r and line_total = a + vat_amount when it is not; the
\* committed sale of the example has subtotal 200, vat_amount 32 and
\* total_amount 232
C16_LineVat ==
    /\ \A i \in DOMAIN db.sale_items :
          LET line == db.sale_items[i]
              a == line.unit_price * line.quantity - line.discount_amount
              r == db.products[line.product_id].vat_rate
          IN IF db.products[line.product_id].is_vat_inclusive
             THEN /\ Times(line.vat_amount, Whole(100 + r)) = Whole(a * r)
                  /\ line.line_total = Whole(a)
             ELSE /\ Times(line.vat_amount, Whole(100)) = Whole(a * r)
                  /\ line.line_total = Plus(Whole(a), line.vat_amount)
    /\ ~inTx =>
          \A id \in DOMAIN db.sales :
              ExampleSale(db, id) =>
                  /\ db.sales[id].subtotal = Whole(200)
                  /\ db.sales[id].vat_amount = Whole(32)
                  /\ db.sales[id].total_amount = Whole(232)

\* the example is committed, and so is a line of the VAT-inclusive product
\* whose VAT is not a whole amount
C16_Witness ==
    /\ Quiet
    /\ \E id \in DOMAIN db.sales : id > Len(InitDb.sales) /\ ExampleSale(db, id)
    /\ \E i \in DOMAIN db.sale_items :
          /\ db.products[db.sale_items[i].product_id].is_vat_inclusive
          /\ db.sale_items[i].vat_amount.d # 1

\* C17: once a sale has been completed by a successful attempt, the success
\* of another attempt linked to the same sale leaves the sale's status,
\* payment_reference and amount_paid as they are
C17_OneAttemptCompletes ==
    [][\A r \in Req :
          (req[r].kind = "handleCallback" /\ Steps(r, "cb_sale", "done")) =>
              LET sid == req[r].l.sale_id
              IN (/\ db.sales[sid].status = "completed"
                  /\ \E i \in DOMAIN db.mpesa :
                        /\ db.mpesa[i].sale_id = sid
                        /\ db.mpesa[i].checkout_request_id # req[r].a.CheckoutRequestID
                        /\ db.mpesa[i].status = "success"
                        /\ db.mpesa[i].transaction_id = db.sales[sid].payment_reference)
                 => /\ db'.sales[sid].status = db.sales[sid].status
                    /\ db'.sales[sid].payment_reference = db.sales[sid].payment_reference
                    /\ db'.sales[sid].amount_paid = db.sales[sid].amount_paid
      ]_vars

\* C18: an attempt's status changes only from pending, and only to success,
\* failed or cancelled
C18_AttemptStatusMoves ==
    [][\A i \in DOMAIN db.mpesa :
          db'.mpesa[i].status # db.mpesa[i].status =>
              /\ db.mpesa[i].status = "pending"
              /\ db'.mpesa[i].status \in TerminalStatuses
      ]_vars

\* C19: no step of a callback with a ResultCode other than 0, and no poll
\* that writes a result other than success, changes a sale
C19_FailureLeavesSale ==
    [][\A r \in Req :
          (/\ req'[r] # req[r]
           /\ \/ req[r].kind = "handleCallback" /\ req[r].a.ResultCode # 0
              \/ /\ req[r].kind = "queryTransactionStatus"
                 /\ req[r].pc = "q_update" /\ req[r].l.reply # "0")
              => db'.sales = db.sales
      ]_vars

\* a callback has failed one attempt of sale 1 and a poll has cancelled the other
C19_Witness ==
    /\ \E r1, r2 \in Req :
          /\ Done(r1, "handleCallback") /\ req[r1].a.ResultCode # 0
          /\ req[r1].a.CheckoutRequestID = "ws_CO_1"
          /\ Done(r2, "queryTransactionStatus")
          /\ req[r2].a.checkout_request_id = "ws_CO_3"
    /\ db.mpesa[1].status = "failed" /\ db.mpesa[1].sale_id = 1
    /\ db.mpesa[3].status = "cancelled" /\ db.mpesa[3].sale_id = 1
    /\ db.sales = InitDb.sales

\* C20: a handleCallback that ended in its catch has answered 500 with the
\* ResultCode/ResultDesc body, and the attempt it names is still pending with
\* callback_received false
C20_FailedCallbackLeavesPending ==
    \A r \in Req :
        (Done(r, "handleCallback") /\ req[r].faulted /\ OthersIdle({r})) =>
            /\ req[r].resp = 500
            /\ \A i \in Attempts(db, req[r].a.CheckoutRequestID) :
                  /\ db.mpesa[i].status = "pending"
                  /\ ~db.mpesa[i].callback_received

\* C21: when the gateway call of queryTransactionStatus throws, the attempts
\* are left as they were and the caller gets an answer other than the normal
\* 200
C21_GatewayFailureReported ==
    [][\A r \in Req :
          (/\ req[r].kind = "queryTransactionStatus"
           /\ req[r].pc = "q_gateway"
           /\ req'[r].at = "q_gateway") =>
              /\ db'.mpesa = db.mpesa
              /\ req'[r].resp # 200
      ]_vars

\* C22: an attempt has a transaction_id only while its status is success
C22_ReceiptOnlyOnSuccess ==
    \A i \in DOMAIN db.mpesa :
        db.mpesa[i].transaction_id # NullStr => db.mpesa[i].status = "success"

\* C23: no purchase line has received more than was ordered
C23_ReceivedWithinOrdered ==
    \A i \in DOMAIN db.purchase_items :
        db.purchase_items[i].quantity_received <= db.purchase_items[i].quantity_ordered

\* something has been received on a line of the purchase
SomeReceived(d, id) ==
    \E i \in DOMAIN d.purchase_items :
        d.purchase_items[i].purchase_id = id /\ d.purchase_items[i].quantity_received > 0

\* C24: a receiveItems that commits with something received on a line but not
\* every line received in full leaves the purchase ordered
C24_PartialIsOrdered ==
    [][\A r \in Req :
          (/\ req[r].kind = "receiveItems" /\ Steps(r, "ri_commit", "done")
           /\ req'[r].resp = 200
           /\ SomeReceived(db', req[r].a.id)
           /\ ~LinesComplete(db', req[r].a.id))
              => db'.purchases[req[r].a.id].status = "ordered"
      ]_vars

\* C25: while a purchase is cancelled no step raises the quantity_received
\* of one of its lines or the stock of a product
C25_CancelledRejectsReceiving ==
    [][\A id \in DOMAIN db.purchases :
          db.purchases[id].status = "cancelled" =>
              /\ \A i \in DOMAIN db.purchase_items :
                    db.purchase_items[i].purchase_id = id =>
                        db'.purchase_items[i].quantity_received
                            <= db.purchase_items[i].quantity_received
              /\ \A p \in ProductIds :
                    db'.products[p].quantity_in_stock <= db.products[p].quantity_in_stock
      ]_vars

\* the highest sequence suffix among the numbers of a prefix and day, 0 if none
HighestSuffix(rows, pfx, day) ==
    LET S == {ParseInt(rows[i].number.suffix) :
                 i \in {j \in DOMAIN rows : /\ rows[j].number.prefix = pfx
                                           /\ rows[j].number.day = day}}
    IN IF S = {} THEN 0 ELSE MaxOf(S)

\* C26: the number a createSale or createPurchase generates is the prefix
\* and day followed by the padded value of 1 + the highest suffix among the
\* stored numbers of that prefix and day, 0001 when there is none
C26_NumberAfterHighest ==
    [][\A r \in Req :
          /\ (req[r].kind = "createSale" /\ Steps(r, "cs_number", "cs_customer")) =>
                req'[r].l.number
                    = OrderNumber("SAL", today, HighestSuffix(db.sales, "SAL", today) + 1)
          /\ (req[r].kind = "createPurchase" /\ Steps(r, "cp_number", "cp_supplier")) =>
                req'[r].l.number
                    = OrderNumber("PUR", today, HighestSuffix(db.purchases, "PUR", today) + 1)
      ]_vars

\* the units of product p on the stored sale lines
UnitsSold(d, p) ==
    Sum([i \in DOMAIN d.sale_items |->
            IF d.sale_items[i].product_id = p THEN d.sale_items[i].quantity ELSE 0],
        DOMAIN d.sale_items)

\* the units of product p received on the stored purchase lines
UnitsReceived(d, p) ==
    Sum([i \in DOMAIN d.purchase_items |->
            IF d.purchase_items[i].product_id = p
            THEN d.purchase_items[i].quantity_received ELSE 0],
        DOMAIN d.purchase_items)

\* C27: with no transaction open, the stock of every stock-tracked product
\* is its initial stock less the units on the sale lines committed since
\* plus the units received since
C27_StockConservation ==
    ~inTx =>
        \A p \in StockTracked :
            db.products[p].quantity_in_stock
                = InitDb.products[p].quantity_in_stock
                    - (UnitsSold(db, p) - UnitsSold(InitDb, p))
                    + (UnitsReceived(db, p) - UnitsReceived(InitDb, p))

\* C28: the ROLLBACK of a receiveItems request undoes only what that request
\* wrote.  The request rolls back before its own statement on purchases, so
\* the purchases, which only acknowledged updatePurchaseStatus requests have
\* written since its BEGIN, are after the ROLLBACK what they were before it
C28_RollbackKeepsOthersWrites ==
    [][\A r \in Req :
          (req[r].kind = "receiveItems" /\ Steps(r, "rollback", "done"))
              => db'.purchases = db.purchases
      ]_vars

\* the line totals of a set of sale lines, added up
RECURSIVE LineTotals(_, _)
LineTotals(d, S) ==
    IF S = {} THEN Whole(0)
    ELSE LET i == CHOOSE i \in S : TRUE
         IN Plus(d.sale_items[i].line_total, LineTotals(d, S \ {i}))

\* C29: every committed sale has total_amount = the sum of line_total over
\* its lines - the header discount_amount
C29_TotalIsSumOfLines ==
    ~inTx =>
        \A id \in DOMAIN db.sales :
            db.sales[id].total_amount
                = Minus(LineTotals(db, ItemsOfSale(db, id)), Whole(db.sales[id].discount_amount))

\* C30: at least one active user of role admin exists
C30_ActiveAdminRemains == ActiveAdminCount(db) >= 1

====
